---- MODULE Spec2Model ----
(***************************************************************************)
(* The response facade of koa-ts (class Responce) over Node's               *)
(* ServerResponse: status, header store and body, and the rules that keep  *)
(* them consistent.                                                        *)
(*                                                                         *)
(* Conventions.  A JavaScript string is a sequence of chunks (Str); the    *)
(* chunks are the lexemes the code inspects (";", digits, the quote, one   *)
(* character of a body), so splitting, parsing and measuring are computed  *)
(* on the sequence.  A header value is a record: present or not, scalar or *)
(* array, and the list of its strings.  A body value is a record           *)
(* [kind, s, n]: kind names the JavaScript type the setter dispatches on.  *)
(***************************************************************************)
EXTENDS Integers, Sequences, FiniteSets, TLC

(***************************************************************************)
(* Bounds of the model                                                     *)
(***************************************************************************)
NumStreams == 2
MaxBufLen == 2
MaxOps == 4

(***************************************************************************)
(* Strings                                                                 *)
(***************************************************************************)
Digits == <<"0", "1", "2", "3", "4", "5", "6", "7", "8", "9">>

IsDigit(c) == \E i \in 1..10 : Digits[i] = c

DigitVal(c) == (CHOOSE i \in 1..10 : Digits[i] = c) - 1

RECURSIVE String(_)
\* String(n) for a non-negative integer n: its decimal digits
String(n) == IF n < 10 THEN <<Digits[n + 1]>>
             ELSE String(n \div 10) \o <<Digits[(n % 10) + 1]>>

RECURSIVE ParseDigits(_, _, _)
ParseDigits(s, i, acc) ==
    IF i > Len(s) \/ ~IsDigit(s[i]) THEN acc
    ELSE ParseDigits(s, i + 1, acc * 10 + DigitVal(s[i]))

\* parseInt(s, 10) || 0 : the leading digits of s, 0 when there are none (NaN)
parseIntOr0(s) == IF Len(s) = 0 \/ ~IsDigit(s[1]) THEN 0 ELSE ParseDigits(s, 1, 0)

\* Buffer.byteLength of one character: the chunk "U+00E9" is the character
\* e-acute, two bytes in UTF-8; every other chunk is one ASCII character
CharBytes(c) == IF c = "U+00E9" THEN 2 ELSE 1

\* mutant of byteLength: counts characters, not bytes
byteLength_chars(s) == Len(s)

RECURSIVE byteLength(_)
byteLength(s) == IF s = <<>> THEN 0 ELSE CharBytes(Head(s)) + byteLength(Tail(s))

RECURSIVE SkipSpace(_)
SkipSpace(s) == IF s # <<>> /\ Head(s) = " " THEN SkipSpace(Tail(s)) ELSE s

\* /^\s*</.test(s)
LooksLikeHtml(s) == SkipSpace(s) # <<>> /\ Head(SkipSpace(s)) = "<"

RECURSIVE IndexOf(_, _, _)
\* the first index >= i of chunk c in s, 0 when there is none
IndexOf(s, c, i) == IF i > Len(s) THEN 0
                    ELSE IF s[i] = c THEN i ELSE IndexOf(s, c, i + 1)

\* s.split(";", 1)[0]
SplitFirst(s, c) == IF IndexOf(s, c, 1) = 0 THEN s ELSE SubSeq(s, 1, IndexOf(s, c, 1) - 1)

(***************************************************************************)
(* Header values and the header map of the outbound message                *)
(***************************************************************************)
Fields == {"content-type", "content-length", "transfer-encoding", "etag",
           "last-modified", "vary", "location", "content-disposition", "link"}

\* the header name as the transport stores it: case-insensitive, lower case
Lower(field) ==
    CASE field = "Content-Type" -> "content-type"
      [] field = "Content-Length" -> "content-length"
      [] field = "Transfer-Encoding" -> "transfer-encoding"
      [] field = "ETag" -> "etag"
      [] field = "Last-Modified" -> "last-modified"
      [] field = "Vary" -> "vary"
      [] field = "Location" -> "location"
      [] field = "Content-Disposition" -> "content-disposition"
      [] field = "Link" -> "link"
      [] field = "Host" -> "host"
      [] field = "X-Forwarded-Host" -> "x-forwarded-host"
      [] field = "X-Forwarded-Proto" -> "x-forwarded-proto"
      [] field = "X-Forwarded-For" -> "x-forwarded-for"
      [] field = "X-Real-IP" -> "x-real-ip"
      [] field = "Referrer" -> "referrer"
      [] field = "Referer" -> "referer"
      [] OTHER -> field

Absent == [present |-> FALSE, arr |-> FALSE, v |-> <<>>]
Scalar(s) == [present |-> TRUE, arr |-> FALSE, v |-> <<s>>]
Array(ss) == [present |-> TRUE, arr |-> TRUE, v |-> ss]

\* JavaScript truthiness of what getHeader returns: undefined and "" are falsy
HTruthy(h) == h.present /\ (h.arr \/ h.v[1] # <<>>)

NoHeaders == [f \in Fields |-> Absent]

(***************************************************************************)
(* Body values                                                             *)
(***************************************************************************)
Undefined == [kind |-> "undefined", s |-> <<>>, n |-> 0]
Null == [kind |-> "null", s |-> <<>>, n |-> 0]
StringBody(s) == [kind |-> "string", s |-> s, n |-> 0]
BufferBody(len) == [kind |-> "buffer", s |-> <<>>, n |-> len]
StreamBody(id) == [kind |-> "stream", s |-> <<>>, n |-> id]
\* a structured value: n = 1 is the object {}, n = 0 is the number 0
JsonBody(j) == [kind |-> "json", s |-> <<>>, n |-> j]

\* val == null
IsNullish(val) == val.kind \in {"undefined", "null"}

\* JavaScript truthiness: undefined, null, "" and 0 are falsy
Truthy(val) ==
    CASE val.kind \in {"undefined", "null"} -> FALSE
      [] val.kind = "string" -> val.s # <<>>
      [] val.kind = "json" -> val.n # 0
      [] OTHER -> TRUE

\* JSON.stringify of a structured value
JSONstringify(val) == IF val.n = 0 THEN <<"0">> ELSE <<"{", "}">>

Streams == 1..NumStreams

\* what the caller passes as a header value: a string, a number, or an array
\* of strings and numbers
JsString(s) == [t |-> "string", s |-> s, n |-> 0, a |-> <<>>]
JsNumber(n) == [t |-> "number", s |-> <<>>, n |-> n, a |-> <<>>]
JsArray(a) == [t |-> "array", s |-> <<>>, n |-> 0, a |-> a]

\* typeof v === "string" ? v : String(v)
Coerce(v) == IF v.t = "string" THEN v.s ELSE String(v.n)

(***************************************************************************)
(* statuses: the tables of the status-code package                         *)
(***************************************************************************)
StatusEmpty == {204, 205, 304}
StatusRedirect == {300, 301, 302, 303, 305, 307, 308}

\* statuses[code]: the reason phrase, "" (undefined) for a code it does not know
StatusText(code) ==
    CASE code = 100 -> "Continue"
      [] code = 200 -> "OK"
      [] code = 204 -> "No Content"
      [] code = 205 -> "Reset Content"
      [] code = 301 -> "Moved Permanently"
      [] code = 302 -> "Found"
      [] code = 304 -> "Not Modified"
      [] code = 404 -> "Not Found"
      [] OTHER -> ""

\* a value assigned to status: an integer n, or (int = FALSE) a value that is
\* not an integer and compares like n (the string "200", 204.5 for n = 204)
Code(n) == [int |-> TRUE, n |-> n]
NonInteger(n) == [int |-> FALSE, n |-> n]

(***************************************************************************)
(* MIME lookup (common.ts)                                                 *)
(***************************************************************************)
TextPlain == <<"text/plain", ";", " charset=utf-8">>
TextHtml == <<"text/html", ";", " charset=utf-8">>
AppJson == <<"application/json", ";", " charset=utf-8">>
OctetStream == <<"application/octet-stream">>
ImagePng == <<"image/png">>

\* mimeTypes.contentType(type): the full Content-Type of an extension or a
\* MIME type, with the default charset added; <<>> (false) when unknown
contentType(type) ==
    CASE type = "html" -> TextHtml
      [] type = "text" -> TextPlain
      [] type = "bin" -> OctetStream
      [] type = "json" -> AppJson
      [] type = "application/json" -> AppJson
      [] type = "png" -> ImagePng
      [] type = "text/html; charset=utf-8" -> TextHtml
      [] type = "text/plain; charset=utf-8" -> TextPlain
      [] OTHER -> <<>>

\* typeLRUCache.get(type): the cached value, <<>> (undefined) when not cached
CacheGet(cache, type) == IF type \in DOMAIN cache THEN cache[type] ELSE <<>>

\* typeLRUCache.set(type, mimeType)
CacheSet(cache, type, mimeType) ==
    [k \in DOMAIN cache \cup {type} |-> IF k = type THEN mimeType ELSE cache[k]]

\* getType(type): the looked-up Content-Type and the cache after the call
getType(cache, type) ==
    IF CacheGet(cache, type) # <<>>
    THEN [mimeType |-> CacheGet(cache, type), cache |-> cache]
    ELSE [mimeType |-> contentType(type),
          cache |-> CacheSet(cache, type, contentType(type))]

(***************************************************************************)
(* The response object.  An operator below takes the object r (the facade  *)
(* with the outbound message it wraps) and returns it as the call leaves   *)
(* it; r.threw names the exception the call raised, "" when it returned.   *)
(***************************************************************************)
headerSent(r) == r.headersSent

get(r, field) == r.headers[Lower(field)]

has(r, field) == r.headers[Lower(field)].present

\* the header value set(field, val) stores: array elements and scalars coerced
\* to strings
Coerced(val) ==
    IF val.t = "array" THEN Array([i \in 1..Len(val.a) |-> Coerce(val.a[i])])
    ELSE Scalar(Coerce(val))

\* mutant of set: the headers-sent guard is missing
set_unguarded(r, field, val) == [r EXCEPT !.headers[Lower(field)] = Coerced(val)]

set(r, field, val) ==
    IF headerSent(r) THEN r
    ELSE [r EXCEPT !.headers[Lower(field)] = Coerced(val)]

RECURSIVE setEach(_, _)
\* set(obj): for (const key in field) this.set(key, field[key])
setEach(r, pairs) ==
    IF pairs = <<>> THEN r
    ELSE setEach(set(r, Head(pairs)[1], Head(pairs)[2]), Tail(pairs))

setObject(r, pairs) == IF headerSent(r) THEN r ELSE setEach(r, pairs)

remove(r, field) ==
    IF headerSent(r) THEN r
    ELSE [r EXCEPT !.headers[Lower(field)] = Absent]

\* prev.concat(val) / [prev].concat(val): the strings of prev, then val (its
\* elements when it is an array)
Concat(prev, val) ==
    JsArray([i \in 1..Len(prev.v) |-> JsString(prev.v[i])]
            \o (IF val.t = "array" THEN val.a ELSE <<val>>))

append(r, field, val) ==
    LET prev == get(r, field)
    IN  IF HTruthy(prev) THEN set(r, field, Concat(prev, val))
        ELSE set(r, field, val)

set_type(r, type) ==
    LET g == getType(r.typeLRUCache, type)
        r1 == [r EXCEPT !.typeLRUCache = g.cache]
    IN  IF g.mimeType # <<>> THEN set(r1, "Content-Type", JsString(g.mimeType))
        ELSE remove(r1, "Content-Type")

\* the type getter: Content-Type up to its first ";", "" when there is none
get_type(r) ==
    LET type == get(r, "Content-Type")
    IN  IF ~HTruthy(type) THEN <<>> ELSE SplitFirst(type.v[1], ";")

set_length(r, n) ==
    IF ~has(r, "Transfer-Encoding") THEN set(r, "Content-Length", JsNumber(n))
    ELSE r

\* the length getter: [known, n]; known = FALSE is undefined
get_length(r) ==
    IF has(r, "Content-Length")
    THEN [known |-> TRUE, n |-> parseIntOr0(get(r, "Content-Length").v[1])]
    ELSE IF ~Truthy(r._body) \/ r._body.kind = "stream" THEN [known |-> FALSE, n |-> 0]
    ELSE IF r._body.kind = "string" THEN [known |-> TRUE, n |-> byteLength(r._body.s)]
    ELSE IF r._body.kind = "buffer" THEN [known |-> TRUE, n |-> r._body.n]
    ELSE [known |-> TRUE, n |-> byteLength(JSONstringify(r._body))]

\* mutant of onFinish: a listener added after the message finished is dropped
onFinish_dropLate(r, id) ==
    IF r.finished THEN r
    ELSE [r EXCEPT !.finishHooks[id] = @ + 1]

\* onFinish(this.res, destroy.bind(null, val)): the listener is queued on the
\* message, or deferred to the next tick when the message has finished already
onFinish(r, id) ==
    IF r.finished THEN [r EXCEPT !.deferred[id] = @ + 1]
    ELSE [r EXCEPT !.finishHooks[id] = @ + 1]

\* val.once("error", ...)
onceError(r, id) == [r EXCEPT !.errorHooks[id] = @ + 1]

RECURSIVE set_status(_, _)
RECURSIVE set_body(_, _)

\* mutant of set_status: the range check excludes its two ends
set_status_exclusive(r, code) ==
    IF headerSent(r) THEN r
    ELSE IF ~code.int THEN [r EXCEPT !.threw = "AssertionError"]
    ELSE IF ~(code.n > 100 /\ code.n < 999) THEN [r EXCEPT !.threw = "AssertionError"]
    ELSE LET r1 == [r EXCEPT !._explicitStatus = TRUE,
                             !.statusCode = code.n,
                             !.statusMessage = IF r.httpVersionMajor < 2
                                               THEN StatusText(code.n) ELSE @]
         IN  IF Truthy(r1._body) /\ code.n \in StatusEmpty
             THEN set_body(r1, Null)
             ELSE r1

\* mutant of set_status: the explicitStatus flag is raised before validation
set_status_flagFirst(r, code) ==
    IF headerSent(r) THEN r
    ELSE IF ~code.int
         THEN [r EXCEPT !._explicitStatus = TRUE, !.threw = "AssertionError"]
    ELSE IF ~(code.n >= 100 /\ code.n <= 999)
         THEN [r EXCEPT !._explicitStatus = TRUE, !.threw = "AssertionError"]
    ELSE LET r1 == [r EXCEPT !._explicitStatus = TRUE,
                             !.statusCode = code.n,
                             !.statusMessage = IF r.httpVersionMajor < 2
                                               THEN StatusText(code.n) ELSE @]
         IN  IF Truthy(r1._body) /\ code.n \in StatusEmpty
             THEN set_body(r1, Null)
             ELSE r1

\* mutant of set_status: the range is not validated
set_status_anyInteger(r, code) ==
    IF headerSent(r) THEN r
    ELSE IF ~code.int THEN [r EXCEPT !.threw = "AssertionError"]
    ELSE LET r1 == [r EXCEPT !._explicitStatus = TRUE,
                             !.statusCode = code.n,
                             !.statusMessage = IF r.httpVersionMajor < 2
                                               THEN StatusText(code.n) ELSE @]
         IN  IF Truthy(r1._body) /\ code.n \in StatusEmpty
             THEN set_body(r1, Null)
             ELSE r1

\* mutant of set_status: the headers-sent guard is missing
set_status_unguarded(r, code) ==
    IF ~code.int THEN [r EXCEPT !.threw = "AssertionError"]
    ELSE IF ~(code.n >= 100 /\ code.n <= 999) THEN [r EXCEPT !.threw = "AssertionError"]
    ELSE LET r1 == [r EXCEPT !._explicitStatus = TRUE,
                             !.statusCode = code.n,
                             !.statusMessage = IF r.httpVersionMajor < 2
                                               THEN StatusText(code.n) ELSE @]
         IN  IF Truthy(r1._body) /\ code.n \in StatusEmpty
             THEN set_body(r1, Null)
             ELSE r1

set_status(r, code) ==
    IF headerSent(r) THEN r
    ELSE IF ~code.int THEN [r EXCEPT !.threw = "AssertionError"]
    ELSE IF ~(code.n >= 100 /\ code.n <= 999) THEN [r EXCEPT !.threw = "AssertionError"]
    ELSE LET r1 == [r EXCEPT !._explicitStatus = TRUE,
                             !.statusCode = code.n,
                             !.statusMessage = IF r.httpVersionMajor < 2
                                               THEN StatusText(code.n) ELSE @]
         IN  IF Truthy(r1._body) /\ code.n \in StatusEmpty
             THEN set_body(r1, Null)
             ELSE r1

\* mutant of set_body_empty: Transfer-Encoding is not removed
set_body_empty_keepTE(r1, val) ==
    IF r1.statusCode \notin StatusEmpty /\ get_type(r1) = <<"application/json">>
    THEN [r1 EXCEPT !._body = StringBody(<<"n", "u", "l", "l">>)]
    ELSE LET r2 == IF r1.statusCode \notin StatusEmpty
                   THEN set_status(r1, Code(204)) ELSE r1
             r3 == IF val.kind = "null"
                   THEN [r2 EXCEPT !._explicitNullBody = TRUE] ELSE r2
         IN  remove(remove(r3, "Content-Type"), "Content-Length")

\* mutant of set_body_empty: the JSON exception is missing
set_body_empty_noJson(r1, val) ==
    LET r2 == IF r1.statusCode \notin StatusEmpty
              THEN set_status(r1, Code(204)) ELSE r1
        r3 == IF val.kind = "null"
              THEN [r2 EXCEPT !._explicitNullBody = TRUE] ELSE r2
    IN  remove(remove(remove(r3, "Content-Type"), "Content-Length"),
               "Transfer-Encoding")

\* the body setter, no-content branch (val == null)
set_body_empty(r1, val) ==
    IF r1.statusCode \notin StatusEmpty /\ get(r1, "Content-Type").arr
    THEN [r1 EXCEPT !.threw = "TypeError"]
    ELSE IF r1.statusCode \notin StatusEmpty /\ get_type(r1) = <<"application/json">>
    THEN [r1 EXCEPT !._body = StringBody(<<"n", "u", "l", "l">>)]
    ELSE LET r2 == IF r1.statusCode \notin StatusEmpty
                   THEN set_status(r1, Code(204)) ELSE r1
             r3 == IF val.kind = "null"
                   THEN [r2 EXCEPT !._explicitNullBody = TRUE] ELSE r2
         IN  remove(remove(remove(r3, "Content-Type"), "Content-Length"),
                    "Transfer-Encoding")

\* mutant of set_body_stream: Content-Length is not removed
set_body_stream_keepLength(r2, original, val, setType) ==
    LET r3 == onFinish(r2, val.n)
        r4 == IF original # val THEN onceError(r3, val.n) ELSE r3
    IN  IF setType THEN set_type(r4, "bin") ELSE r4

\* the body setter, stream branch
set_body_stream(r2, original, val, setType) ==
    LET r3 == onFinish(r2, val.n)
        r4 == IF original # val
              THEN LET r5 == onceError(r3, val.n)
                   IN  IF ~IsNullish(original) THEN remove(r5, "Content-Length")
                       ELSE r5
              ELSE r3
    IN  IF setType THEN set_type(r4, "bin") ELSE r4

set_body(r, val) ==
    LET original == r._body
        r1 == [r EXCEPT !._body = val]
    IN  IF IsNullish(val) THEN set_body_empty(r1, val)
        ELSE
        LET r2 == IF ~r1._explicitStatus THEN set_status(r1, Code(200)) ELSE r1
            setType == ~has(r2, "Content-Type")
        IN  CASE val.kind = "string" ->
                   set_length(IF setType
                              THEN set_type(r2, IF LooksLikeHtml(val.s)
                                                THEN "html" ELSE "text")
                              ELSE r2,
                              byteLength(val.s))
              [] val.kind = "buffer" ->
                   set_length(IF setType THEN set_type(r2, "bin") ELSE r2, val.n)
              [] val.kind = "stream" ->
                   set_body_stream(r2, original, val, setType)
              [] OTHER ->
                   set_type(remove(r2, "Content-Length"), "json")

set_message(r, msg) == [r EXCEPT !.statusMessage = msg]

flushHeaders(r) == [r EXCEPT !.headersSent = TRUE]

(***************************************************************************)
(* vary, etag, lastModified                                                *)
(***************************************************************************)
\* field.toLowerCase() of a Vary token
LowerToken(tok) ==
    CASE tok = "Accept" -> "accept"
      [] tok = "Origin" -> "origin"
      [] tok = "ORIGIN" -> "origin"
      [] OTHER -> tok

\* parse(header): the tokens of a Vary value, in lower case
VaryTokens(header) ==
    {LowerToken(header[i]) : i \in {j \in 1..Len(header) : header[j] # ", "}}

\* append(header, field) of the vary package: "*" wins; a field already listed
\* (whatever its case) is not added again
varyAppend(header, field) ==
    IF header = <<"*">> THEN header
    ELSE IF field = "*" \/ "*" \in VaryTokens(header) THEN <<"*">>
    ELSE IF LowerToken(field) \in VaryTokens(header) THEN header
    ELSE IF header = <<>> THEN <<field>>
    ELSE header \o <<", ", field>>

RECURSIVE Join(_)
\* val.join(", ")
Join(ss) == IF ss = <<>> THEN <<>>
            ELSE IF Len(ss) = 1 THEN ss[1]
            ELSE ss[1] \o <<", ">> \o Join(Tail(ss))

vary(r, field) ==
    IF headerSent(r) THEN r
    ELSE LET val == get(r, "Vary")
             header == IF ~HTruthy(val) THEN <<>> ELSE Join(val.v)
             new == varyAppend(header, field)
         IN  IF new # <<>> THEN [r EXCEPT !.headers["vary"] = Scalar(new)] ELSE r

\* /^(W\/)?"/.test(val)
IsQuotedTag(val) ==
    \/ Len(val) >= 1 /\ val[1] = "\""
    \/ Len(val) >= 2 /\ val[1] = "W/" /\ val[2] = "\""

set_etag(r, val) ==
    set(r, "ETag", JsString(IF IsQuotedTag(val) THEN val ELSE <<"\"">> \o val \o <<"\"">>))

\* new Date(str): the time value of a date string, -1 (NaN) when it is none
DateParse(str) == IF str = "2013-09-13" THEN 15961 ELSE -1

\* date.toUTCString() of a time value (in days)
toUTCString(time) ==
    IF time < 0 THEN <<"Invalid Date">>
    ELSE <<"day", String(time), "GMT">>

\* val is [isString, str, time]: a string to parse, or a Date with that time
set_lastModified(r, val) ==
    LET time == IF val.isString THEN DateParse(val.str) ELSE val.time
    IN  set(r, "Last-Modified", JsString(toUTCString(time)))

(***************************************************************************)
(* The request facade (class Request) over Node's IncomingMessage.  An     *)
(* operator below takes the request q (the facade with the inbound message,*)
(* its socket and the application settings it reads); a getter that        *)
(* memoizes returns [ret, req]: its value and the request as it leaves it. *)
(* A request header is a string, <<>> when it is absent or empty (get      *)
(* reads both as "").                                                      *)
(***************************************************************************)
ReqFields == {"host", ":authority", "x-forwarded-host", "x-forwarded-proto",
              "x-forwarded-for", "x-real-ip", "referer", "referrer"}

NoReqHeaders == [f \in ReqFields |-> <<>>]

\* Request.get(field): Referrer and Referer are interchangeable
req_get(q, field) ==
    IF Lower(field) \in {"referer", "referrer"}
    THEN IF q.headers["referrer"] # <<>> THEN q.headers["referrer"]
         ELSE q.headers["referer"]
    ELSE q.headers[Lower(field)]

RECURSIVE TrimRight(_)
\* s without its trailing spaces
TrimRight(s) == IF s # <<>> /\ s[Len(s)] = " "
                THEN TrimRight(SubSeq(s, 1, Len(s) - 1)) ELSE s

RECURSIVE SplitComma(_)
\* s.split(/\s*,\s*/)
SplitComma(s) ==
    IF IndexOf(s, ",", 1) = 0 THEN <<s>>
    ELSE <<TrimRight(SubSeq(s, 1, IndexOf(s, ",", 1) - 1))>>
         \o SplitComma(SkipSpace(SubSeq(s, IndexOf(s, ",", 1) + 1, Len(s))))

RECURSIVE Split(_, _)
\* s.split(c)
Split(s, c) ==
    IF IndexOf(s, c, 1) = 0 THEN <<s>>
    ELSE <<SubSeq(s, 1, IndexOf(s, c, 1) - 1)>>
         \o Split(SubSeq(s, IndexOf(s, c, 1) + 1, Len(s)), c)

\* arr.slice(start): from index start, counted from the end when it is negative
Slice(arr, start) ==
    LET from == IF start >= 0 THEN start
                ELSE IF Len(arr) + start < 0 THEN 0 ELSE Len(arr) + start
    IN  SubSeq(arr, from + 1, Len(arr))

get_protocol(q) ==
    IF q.encrypted THEN <<"https">>
    ELSE IF ~q.proxy THEN <<"http">>
    ELSE IF req_get(q, "X-Forwarded-Proto") # <<>>
         THEN Head(SplitComma(req_get(q, "X-Forwarded-Proto")))
         ELSE <<"http">>

get_host(q) ==
    LET forwarded == IF q.proxy THEN req_get(q, "X-Forwarded-Host") ELSE <<>>
        authority == IF forwarded = <<>> /\ q.httpVersionMajor >= 2
                     THEN req_get(q, ":authority") ELSE forwarded
        host == IF authority = <<>> THEN req_get(q, "Host") ELSE authority
    IN  IF host = <<>> THEN <<>> ELSE Head(SplitComma(host))

get_origin(q) == get_protocol(q) \o <<"://">> \o get_host(q)

\* net.isIPv4: four numbers up to 255 between dots (the numbers among the
\* chunks of the model)
IsIPv4(s) ==
    /\ Len(s) = 7
    /\ \A i \in 1..7 : IF i % 2 = 1
                        THEN s[i] \in {"0", "1", "10", "127", "192", "168", "255"}
                        ELSE s[i] = "."

\* net.isIPv6: groups of hexadecimal digits (those among the chunks of the
\* model) between colons, eight of them, or fewer around one "::"
IsIPv6(s) ==
    LET HexGroups == {"0", "1", "10", "db8", "2001", "fe80"}
        doubles == {i \in 1..(Len(s) - 1) : s[i] = ":" /\ s[i + 1] = ":"}
        groups == {i \in 1..Len(s) : s[i] \in HexGroups}
    IN  /\ Len(s) >= 2
        /\ \A i \in 1..Len(s) : s[i] = ":" \/ s[i] \in HexGroups
        /\ \A i \in 1..(Len(s) - 1) : s[i] = ":" \/ s[i + 1] = ":"
        /\ s[1] = ":" => s[2] = ":"
        /\ s[Len(s)] = ":" => s[Len(s) - 1] = ":"
        /\ \/ Cardinality(doubles) = 1 /\ Cardinality(groups) <= 7
           \/ Cardinality(doubles) = 0 /\ Cardinality(groups) = 8

\* net.isIP(input): 4, 6, or 0 when input is no address literal
isIP(input) == IF IsIPv4(input) THEN 4 ELSE IF IsIPv6(input) THEN 6 ELSE 0

RECURSIVE SkipSlashes(_)
SkipSlashes(s) == IF s # <<>> /\ Head(s) = "/" THEN SkipSlashes(Tail(s)) ELSE s

RECURSIVE FirstOf(_, _, _)
\* the first index >= i of a chunk of cs in s, Len(s) + 1 when there is none
FirstOf(s, cs, i) == IF i > Len(s) THEN Len(s) + 1
                     ELSE IF s[i] \in cs THEN i ELSE FirstOf(s, cs, i + 1)

\* new URL(input) for an http(s) input: [ok, hostname, href]; ok = FALSE is
\* the TypeError.  The slashes after the scheme are skipped, the authority
\* ends at the next "/", "?" or "#"; a host in brackets must be an IPv6
\* address and its hostname keeps the brackets; a host name holds none of
\* the forbidden chunks; after the host comes nothing, or ":" and a port.
NewURL(input) ==
    LET invalid == [ok |-> FALSE, hostname |-> <<>>, href |-> <<>>]
        ForbiddenHost == {" ", "<", ">", "[", "]", "%"}
        IsPort(p) == p = <<>> \/ p = <<":">>
                     \/ (Len(p) = 2 /\ p[1] = ":" /\ p[2] \in {"80", "3000"})
        rest == SkipSlashes(SubSeq(input, 3, Len(input)))
        authority == SubSeq(rest, 1, FirstOf(rest, {"/", "?", "#"}, 1) - 1)
        close == IndexOf(authority, "]", 1)
        name == SplitFirst(authority, ":")
    IN  IF Len(input) < 2 \/ input[1] \notin {"http", "https"} \/ input[2] # "://"
        THEN invalid
        ELSE IF authority = <<>> THEN invalid
        ELSE IF authority[1] = "["
        THEN IF \/ close = 0
                \/ ~IsIPv6(SubSeq(authority, 2, close - 1))
                \/ ~IsPort(SubSeq(authority, close + 1, Len(authority)))
             THEN invalid
             ELSE [ok |-> TRUE, hostname |-> SubSeq(authority, 1, close),
                   href |-> input]
        ELSE IF \/ name = <<>>
                \/ \E i \in 1..Len(name) : name[i] \in ForbiddenHost
                \/ ~IsPort(SubSeq(authority, Len(name) + 1, Len(authority)))
             THEN invalid
             ELSE [ok |-> TRUE, hostname |-> name, href |-> input]

\* mutant of get_URL: the placeholder of a failed parse is not kept
get_URL_retry(q, fresh) ==
    IF ~q.memoizedURL.set \/ ~q.memoizedURL.ok
    THEN LET parsed == NewURL(get_origin(q) \o q.originalUrl)
             made == [set |-> TRUE, id |-> fresh, ok |-> parsed.ok,
                      hostname |-> parsed.hostname, href |-> parsed.href]
         IN  [ret |-> made, req |-> [q EXCEPT !.memoizedURL = made]]
    ELSE [ret |-> q.memoizedURL, req |-> q]

\* the URL getter; fresh is the identity of an object it creates.  The object
\* is the parsed URL (ok) or, the TypeError caught, the empty placeholder of
\* Object.create(null); both are truthy.
get_URL(q, fresh) ==
    IF ~q.memoizedURL.set
    THEN LET parsed == NewURL(get_origin(q) \o q.originalUrl)
             made == [set |-> TRUE, id |-> fresh, ok |-> parsed.ok,
                      hostname |-> parsed.hostname, href |-> parsed.href]
         IN  [ret |-> made, req |-> [q EXCEPT !.memoizedURL = made]]
    ELSE [ret |-> q.memoizedURL, req |-> q]

get_hostname(q, fresh) ==
    IF get_host(q) = <<>> THEN [ret |-> <<>>, req |-> q]
    ELSE IF get_host(q)[1] = "["
    THEN [ret |-> get_URL(q, fresh).ret.hostname, req |-> get_URL(q, fresh).req]
    ELSE [ret |-> SplitFirst(get_host(q), ":"), req |-> q]

\* mutant of get_subdomains: address literals are split like names
get_subdomains_noIP(q, fresh) ==
    LET hostname == get_hostname(q, fresh)
        labels == Split(hostname.ret, ".")
        reversed == [i \in 1..Len(labels) |-> labels[Len(labels) + 1 - i]]
    IN  [ret |-> Slice(reversed, q.subdomainOffset),
         req |-> hostname.req]

\* the subdomains getter: hostname.split(".").reverse().slice(offset), [] for
\* an address literal
get_subdomains(q, fresh) ==
    LET hostname == get_hostname(q, fresh)
        labels == Split(hostname.ret, ".")
        reversed == [i \in 1..Len(labels) |-> labels[Len(labels) + 1 - i]]
    IN  [ret |-> IF isIP(hostname.ret) # 0 THEN <<>>
                 ELSE Slice(reversed, q.subdomainOffset),
         req |-> hostname.req]

\* mutant of get_ips: the forwarded header is read whatever app.proxy is
get_ips_trusting(q) ==
    LET val == req_get(q, q.proxyIpHeader)
        ips == IF val # <<>> THEN SplitComma(val) ELSE <<>>
    IN  IF q.maxIpsCount > 0 THEN Slice(ips, 0 - q.maxIpsCount) ELSE ips

get_ips(q) ==
    LET val == req_get(q, q.proxyIpHeader)
        ips == IF q.proxy /\ val # <<>> THEN SplitComma(val) ELSE <<>>
    IN  IF q.maxIpsCount > 0 THEN Slice(ips, 0 - q.maxIpsCount) ELSE ips

\* the ip getter: this[IP] is resolved while it is falsy (undefined or "")
get_ip(q) ==
    IF q.IP = <<>>
    THEN LET ips == get_ips(q)
             resolved == IF ips # <<>> /\ ips[1] # <<>> THEN ips[1]
                         ELSE q.remoteAddress
         IN  [ret |-> resolved, req |-> [q EXCEPT !.IP = resolved]]
    ELSE [ret |-> q.IP, req |-> q]

(***************************************************************************)
(* url, path, querystring, search, query                                   *)
(***************************************************************************)
\* a string or null
NullStr == [null |-> TRUE, s |-> <<>>]
Str(s) == [null |-> FALSE, s |-> s]

\* parseurl's parse(req) of a url that starts with "/": the first "?" starts
\* the search.  (Its cached result is keyed by req.url, so it is a function
\* of req.url.)
parse(u) ==
    IF IndexOf(u, "?", 1) = 0
    THEN [pathname |-> u, search |-> NullStr, query |-> NullStr]
    ELSE [pathname |-> SubSeq(u, 1, IndexOf(u, "?", 1) - 1),
          search |-> Str(SubSeq(u, IndexOf(u, "?", 1), Len(u))),
          query |-> Str(SubSeq(u, IndexOf(u, "?", 1) + 1, Len(u)))]

\* url.format(urlObject): pathname with "?" and "#" escaped, then the search,
\* given its "?" when it lacks it, with "#" escaped
stringify(u) ==
    LET s0 == IF u.search.null THEN <<>> ELSE u.search.s
        s1 == IF s0 # <<>> /\ s0[1] # "?" THEN <<"?">> \o s0 ELSE s0
    IN  [i \in 1..Len(u.pathname) |->
            IF u.pathname[i] = "?" THEN "%3F"
            ELSE IF u.pathname[i] = "#" THEN "%23" ELSE u.pathname[i]]
        \o [i \in 1..Len(s1) |-> IF s1[i] = "#" THEN "%23" ELSE s1[i]]

set_url(q, val) == [q EXCEPT !.url = val]

set_path(q, path) ==
    IF parse(q.url).pathname = path THEN q
    ELSE set_url(q, stringify([parse(q.url) EXCEPT !.pathname = path]))

get_querystring(q) ==
    IF parse(q.url).query.null THEN <<>> ELSE parse(q.url).query.s

set_querystring(q, str) ==
    IF parse(q.url).search = Str(<<"?">> \o str) THEN q
    ELSE set_url(q, stringify([parse(q.url) EXCEPT !.search = Str(str)]))

set_search(q, str) == set_querystring(q, str)

\* the names every plain object inherits from Object.prototype (some of them)
ObjectPrototype == {"toString", "constructor", "__proto__", "valueOf",
                    "hasOwnProperty"}

\* one "key=value" part of a query string as a pair
QsPair(part) ==
    [k |-> SplitFirst(part, "="),
     v |-> IF IndexOf(part, "=", 1) = 0 THEN <<>>
           ELSE SubSeq(part, IndexOf(part, "=", 1) + 1, Len(part))]

\* qs.parse(str): the pairs of the parts between "&", in order; a part without
\* a key and a key that Object.prototype holds are dropped
qs_parse(str) ==
    LET parts == IF str = <<>> THEN <<>> ELSE Split(str, "&")
        keep == SelectSeq(parts, LAMBDA part :
                    /\ QsPair(part).k # <<>>
                    /\ ~(Len(QsPair(part).k) = 1
                         /\ QsPair(part).k[1] \in ObjectPrototype))
    IN  [i \in 1..Len(keep) |-> QsPair(keep[i])]

RECURSIVE qs_stringify(_)
\* qs.stringify(obj): "key=value" of each pair, joined by "&"
qs_stringify(obj) ==
    IF obj = <<>> THEN <<>>
    ELSE obj[1].k \o <<"=">> \o obj[1].v
         \o (IF Len(obj) > 1 THEN <<"&">> \o qs_stringify(Tail(obj)) ELSE <<>>)

\* the query getter: c[str] || (c[str] = qs.parse(str)).  c[str] is the own
\* entry or, for a name of Object.prototype, the member that _querycache ({})
\* inherits; a parsed query is an object of its own identity (fresh).
get_query(q, fresh) ==
    LET str == get_querystring(q)
        parsed == [kind |-> "parsed", id |-> fresh, pairs |-> qs_parse(str),
                   name |-> ""]
    IN  IF str \in DOMAIN q._querycache
        THEN [ret |-> q._querycache[str], req |-> q]
        ELSE IF Len(str) = 1 /\ str[1] \in ObjectPrototype
        THEN [ret |-> [kind |-> "inherited", id |-> 0, pairs |-> <<>>,
                       name |-> str[1]],
              req |-> q]
        ELSE [ret |-> parsed,
              req |-> [q EXCEPT !._querycache = CacheSet(q._querycache, str, parsed)]]

set_query(q, obj) == set_querystring(q, qs_stringify(obj))

(***************************************************************************)
(* redirect                                                                *)
(***************************************************************************)
\* the string "back"
Back == <<"b", "a", "c", "k">>

\* the first statement of redirect: "back" is the Referrer of the request
\* (ctx.get is Request.get), or alt, or "/"; <<>> is an alt not given
resolveBack(q, target, alt) ==
    IF target = Back
    THEN IF req_get(q, "Referrer") # <<>> THEN req_get(q, "Referrer")
         ELSE IF alt # <<>> THEN alt ELSE <<"/">>
    ELSE target

\* redirect(url, alt) on the response r of the request q.  After "back" is
\* resolved, the argument of the set call is encodeUrl(url): the module
\* neither imports nor declares encodeUrl, so evaluating it raises
\* ReferenceError before set is entered, and nothing after it runs.
redirect(r, q, target, alt) ==
    LET resolved == resolveBack(q, target, alt)
    IN  [r EXCEPT !.threw = "ReferenceError"]

(***************************************************************************)
(* State                                                                   *)
(***************************************************************************)
VARIABLES
    headersSent,        \* res.headersSent
    finished,           \* the outbound message has finished
    statusCode,         \* res.statusCode
    statusMessage,      \* res.statusMessage, "" when undefined
    headers,            \* the header map of res, by lower-case name
    _body,              \* Responce._body
    _explicitStatus,    \* Responce._explicitStatus
    _explicitNullBody,  \* Responce._explicitNullBody
    httpVersionMajor,   \* req.httpVersionMajor
    finishHooks,        \* per stream, the destroy listeners queued by onFinish
    errorHooks,         \* per stream, its once("error") listeners
    deferred,           \* per stream, the destroy listeners deferred to the next tick
    destroyed,          \* the streams destroy() has torn down
    forwarded,          \* the streams whose error reached ctx.onerror
    typeLRUCache,       \* the MIME lookup cache of common.ts
    lastOp,             \* the last call: its name, its argument, what it raised, and
                        \* the object as the call found it (pre)
    ops,                \* the number of calls and events so far
    atFlush,            \* history: the headers and status code when the head was sent
    callerStatus,       \* history: the caller has assigned status (and it was accepted)
    assigned,           \* history: the streams that have been assigned as body
    reqHeaders,         \* req.headers, by lower-case name; <<>> when absent
    url,                \* req.url
    originalUrl,        \* Request.originalUrl
    remoteAddress,      \* req.socket.remoteAddress; <<>> when undefined
    encrypted,          \* req.socket.encrypted
    proxy,              \* app.proxy
    subdomainOffset,    \* app.subdomainOffset
    proxyIpHeader,      \* app.proxyIpHeader
    maxIpsCount,        \* app.maxIpsCount
    IP,                 \* Request[IP], the memoized address; <<>> when undefined
    _querycache,        \* Request._querycache: the own entries, by querystring
    memoizedURL,        \* Request.memoizedURL
    reqOp,              \* the last call on the request: its name, its argument, what it
                        \* returned and raised, and the request as the call found it (pre)
    twinIP,             \* Request[IP] of the twin: the same request, received without
                        \* the forwarded-address headers
    addrSeen,           \* history: the values socket.remoteAddress has had
    ipReads             \* history: what the reads of ip returned, in order

\* the request, the application settings it reads, and what is recorded of it
reqVars == <<reqHeaders, url, originalUrl, remoteAddress, encrypted, proxy,
             subdomainOffset, proxyIpHeader, maxIpsCount, IP, _querycache,
             memoizedURL, reqOp, twinIP, addrSeen, ipReads>>

vars == <<headersSent, finished, statusCode, statusMessage, headers, _body,
          _explicitStatus, _explicitNullBody, httpVersionMajor, finishHooks,
          errorHooks, deferred, destroyed, forwarded, typeLRUCache, lastOp, ops,
          atFlush, callerStatus, assigned, reqVars>>

\* the response object of the current state, entering a call
This ==
    [headersSent |-> headersSent, finished |-> finished, statusCode |-> statusCode,
     statusMessage |-> statusMessage, headers |-> headers, _body |-> _body,
     _explicitStatus |-> _explicitStatus, _explicitNullBody |-> _explicitNullBody,
     httpVersionMajor |-> httpVersionMajor, finishHooks |-> finishHooks,
     errorHooks |-> errorHooks, deferred |-> deferred,
     typeLRUCache |-> typeLRUCache, threw |-> ""]

NoArg == [int |-> TRUE, n |-> 0]

\* the state after a call that left the object as r
Return(name, code, val, r) ==
    /\ ops < MaxOps
    /\ ops' = ops + 1
    /\ headersSent' = r.headersSent
    /\ finished' = r.finished
    /\ statusCode' = r.statusCode
    /\ statusMessage' = r.statusMessage
    /\ headers' = r.headers
    /\ _body' = r._body
    /\ _explicitStatus' = r._explicitStatus
    /\ _explicitNullBody' = r._explicitNullBody
    /\ finishHooks' = r.finishHooks
    /\ errorHooks' = r.errorHooks
    /\ deferred' = r.deferred
    /\ typeLRUCache' = r.typeLRUCache
    /\ lastOp' = [name |-> name, threw |-> r.threw, code |-> code, val |-> val,
                  pre |-> This]
    /\ atFlush' = IF name = "flushHeaders"
                  THEN [headers |-> headers, statusCode |-> statusCode]
                  ELSE atFlush
    /\ callerStatus' = (callerStatus
                        \/ (name = "status" /\ ~headersSent /\ r.threw = ""))
    /\ assigned' = IF name = "body" /\ val.kind = "stream" /\ r.threw = ""
                   THEN assigned \cup {val.n}
                   ELSE assigned
    /\ UNCHANGED <<httpVersionMajor, destroyed, forwarded, reqVars>>

\* the request object of the current state, entering a call
Req ==
    [headers |-> reqHeaders, url |-> url, originalUrl |-> originalUrl,
     remoteAddress |-> remoteAddress, encrypted |-> encrypted,
     httpVersionMajor |-> httpVersionMajor, proxy |-> proxy,
     subdomainOffset |-> subdomainOffset, proxyIpHeader |-> proxyIpHeader,
     maxIpsCount |-> maxIpsCount, IP |-> IP, _querycache |-> _querycache,
     memoizedURL |-> memoizedURL]

\* the twin of the request: the same request without the forwarded-address
\* headers, with its own memoized address
Twin ==
    [Req EXCEPT !.headers = [f \in ReqFields |->
                                IF f \in {"x-forwarded-for", "x-real-ip"} THEN <<>>
                                ELSE reqHeaders[f]],
                !.IP = twinIP]

\* the state after a call on the request that returned ret and left the
\* request as q; the twin makes the same call
ReqReturn(name, arg, ret, q) ==
    /\ ops < MaxOps
    /\ ops' = ops + 1
    /\ reqHeaders' = q.headers
    /\ url' = q.url
    /\ remoteAddress' = q.remoteAddress
    /\ IP' = q.IP
    /\ _querycache' = q._querycache
    /\ memoizedURL' = q.memoizedURL
    /\ reqOp' = [name |-> name, arg |-> arg, ret |-> ret, threw |-> "",
                 twinRet |-> IF name = "ip" THEN get_ip(Twin).ret
                             ELSE IF name = "ips" THEN get_ips(Twin) ELSE ret,
                 pre |-> Req]
    /\ twinIP' = IF name = "ip" THEN get_ip(Twin).req.IP ELSE twinIP
    /\ addrSeen' = addrSeen \cup {q.remoteAddress}
    /\ ipReads' = IF name = "ip" THEN Append(ipReads, ret) ELSE ipReads
    /\ UNCHANGED <<originalUrl, encrypted, proxy, subdomainOffset, proxyIpHeader,
                   maxIpsCount>>
    /\ UNCHANGED <<headersSent, finished, statusCode, statusMessage, headers, _body,
                   _explicitStatus, _explicitNullBody, httpVersionMajor,
                   finishHooks, errorHooks, deferred, destroyed, forwarded,
                   typeLRUCache, lastOp, atFlush, callerStatus, assigned>>

\* the response after construction, on a message that has sent nothing
InitResponse ==
    /\ headersSent = FALSE
    /\ finished = FALSE
    /\ statusCode = 200
    /\ statusMessage = ""
    /\ headers = NoHeaders
    /\ _body = Undefined
    /\ _explicitStatus = FALSE
    /\ _explicitNullBody = FALSE
    /\ httpVersionMajor \in {1, 2}
    /\ finishHooks = [s \in Streams |-> 0]
    /\ errorHooks = [s \in Streams |-> 0]
    /\ deferred = [s \in Streams |-> 0]
    /\ destroyed = {}
    /\ forwarded = {}
    /\ typeLRUCache = [k \in {} |-> <<>>]
    /\ lastOp = [name |-> "new", threw |-> "", code |-> NoArg, val |-> Undefined,
                 pre |-> This]
    /\ ops = 0
    /\ atFlush = [headers |-> NoHeaders, statusCode |-> 200]
    /\ callerStatus = FALSE
    /\ assigned = {}

\* the defaults of the Application constructor
DefaultSubdomainOffset == 2
DefaultMaxIpsCount == 0

\* the private fields of the request facade after construction, and the
\* records of the model
InitFacade ==
    /\ IP = <<>>
    /\ _querycache = [k \in {} |-> <<>>]
    /\ memoizedURL = [set |-> FALSE, id |-> 0, ok |-> FALSE, hostname |-> <<>>,
                      href |-> <<>>]
    /\ twinIP = <<>>
    /\ addrSeen = {remoteAddress}
    /\ ipReads = <<>>
    /\ reqOp = [name |-> "new", arg |-> <<>>, ret |-> <<>>, threw |-> "",
                twinRet |-> <<>>, pre |-> Req]

\* with a request for "/" without headers, under an application with the
\* defaults
Init ==
    /\ InitResponse
    /\ reqHeaders = NoReqHeaders
    /\ url = <<"/">>
    /\ originalUrl = <<"/">>
    /\ remoteAddress = <<"10.0.0.9">>
    /\ encrypted = FALSE
    /\ proxy = FALSE
    /\ subdomainOffset = DefaultSubdomainOffset
    /\ proxyIpHeader = "X-Forwarded-For"
    /\ maxIpsCount = DefaultMaxIpsCount
    /\ InitFacade

(***************************************************************************)
(* Operations                                                              *)
(***************************************************************************)
SetStatus(code) == Return("status", code, Undefined, set_status(This, code))

SetBody(val) == Return("body", NoArg, val, set_body(This, val))

SetType(type) == Return("type", NoArg, Undefined, set_type(This, type))

SetLength(n) == Return("length", NoArg, Undefined, set_length(This, n))

SetMessage(msg) == Return("message", NoArg, Undefined, set_message(This, msg))

CallSet(field, val) == Return("set", NoArg, Undefined, set(This, field, val))

CallSetObject(pairs) == Return("set", NoArg, Undefined, setObject(This, pairs))

\* append(field, val); the arguments are recorded as the value of the call
CallAppend(field, val) ==
    Return("append", NoArg, [kind |-> "args", s |-> <<>>, n |-> 0, field |-> field,
                             arg |-> val],
           append(This, field, val))

CallRemove(field) == Return("remove", NoArg, Undefined, remove(This, field))

CallVary(field) == Return("vary", NoArg, Undefined, vary(This, field))

SetEtag(val) == Return("etag", NoArg, Undefined, set_etag(This, val))

SetLastModified(val) == Return("lastModified", NoArg, Undefined, set_lastModified(This, val))

\* redirect(url, alt); the arguments are recorded as the value of the call
Redirect(target, alt) ==
    Return("redirect", NoArg,
           [kind |-> "args", s |-> target, n |-> 0, alt |-> alt, req |-> Req],
           redirect(This, Req, target, alt))

\* an assignment to a header of the inbound message
SetReqHeader(field, val) ==
    ReqReturn("header", <<field, val>>, <<>>, [Req EXCEPT !.headers[field] = val])

\* the connection's remote address changes (it is undefined once the socket
\* is gone)
SetRemoteAddress(address) ==
    ReqReturn("remoteAddress", address, <<>>, [Req EXCEPT !.remoteAddress = address])

ReadIps == ReqReturn("ips", <<>>, get_ips(Req), Req)

ReadIp == ReqReturn("ip", <<>>, get_ip(Req).ret, get_ip(Req).req)

ReadURL == ReqReturn("URL", <<>>, get_URL(Req, ops + 1).ret, get_URL(Req, ops + 1).req)

ReadSubdomains ==
    ReqReturn("subdomains", <<>>, get_subdomains(Req, ops + 1).ret,
              get_subdomains(Req, ops + 1).req)

ReadQuery ==
    ReqReturn("query", <<>>, get_query(Req, ops + 1).ret, get_query(Req, ops + 1).req)

SetUrl(val) == ReqReturn("set url", val, <<>>, set_url(Req, val))

SetPath(path) == ReqReturn("set path", path, <<>>, set_path(Req, path))

SetQuerystring(str) ==
    ReqReturn("set querystring", str, <<>>, set_querystring(Req, str))

SetSearch(str) == ReqReturn("set search", str, <<>>, set_search(Req, str))

SetQuery(obj) == ReqReturn("set query", obj, <<>>, set_query(Req, obj))

\* the transport writes the response head
FlushHeaders ==
    /\ ~headersSent
    /\ Return("flushHeaders", NoArg, Undefined, flushHeaders(This))

\* the outbound message finishes: the queued listeners run, each destroys its stream
Finish ==
    /\ ~finished
    /\ finished' = TRUE
    /\ destroyed' = destroyed \cup {s \in Streams : finishHooks[s] > 0}
    /\ finishHooks' = [s \in Streams |-> 0]
    /\ lastOp' = [name |-> "finish", threw |-> "", code |-> NoArg, val |-> Undefined,
                  pre |-> This]
    /\ ops < MaxOps
    /\ ops' = ops + 1
    /\ UNCHANGED <<headersSent, statusCode, statusMessage, headers, _body,
                   _explicitStatus, _explicitNullBody, httpVersionMajor,
                   errorHooks, deferred, forwarded, typeLRUCache, atFlush,
                   callerStatus, assigned, reqVars>>

\* the next tick: the deferred listeners run.  It is a turn of the event loop,
\* not a call, and comes however many calls there have been.
Tick ==
    /\ \E s \in Streams : deferred[s] > 0
    /\ destroyed' = destroyed \cup {s \in Streams : deferred[s] > 0}
    /\ deferred' = [s \in Streams |-> 0]
    /\ lastOp' = [name |-> "tick", threw |-> "", code |-> NoArg, val |-> Undefined,
                  pre |-> This]
    /\ UNCHANGED <<headersSent, finished, statusCode, statusMessage, headers, _body,
                   _explicitStatus, _explicitNullBody, httpVersionMajor,
                   finishHooks, errorHooks, forwarded, typeLRUCache, atFlush,
                   callerStatus, assigned, ops, reqVars>>

\* stream s emits "error": its once-listeners run and hand the error to ctx.onerror
StreamError(s) ==
    /\ errorHooks[s] > 0
    /\ errorHooks' = [errorHooks EXCEPT ![s] = 0]
    /\ forwarded' = forwarded \cup {s}
    /\ lastOp' = [name |-> "error", threw |-> "", code |-> NoArg, val |-> Undefined,
                  pre |-> This]
    /\ ops < MaxOps
    /\ ops' = ops + 1
    /\ UNCHANGED <<headersSent, finished, statusCode, statusMessage, headers, _body,
                   _explicitStatus, _explicitNullBody, httpVersionMajor,
                   finishHooks, deferred, destroyed, typeLRUCache, atFlush,
                   callerStatus, assigned, reqVars>>

(***************************************************************************)
(* Spec: the status / body / type state machine                            *)
(***************************************************************************)
StatusInputs == {Code(99), Code(100), Code(200), Code(204), Code(205), Code(304),
                 Code(999), Code(1000), NonInteger(200)}

BodyInputs ==
    {Undefined, Null, StringBody(<<>>), StringBody(<<" ", "<">>),
     StringBody(<<"U+00E9", "a">>), StreamBody(1), JsonBody(0), JsonBody(1)}
    \cup {BufferBody(n) : n \in 1..MaxBufLen}

TypeInputs == {"application/json", "png", "nope"}

SetInputs == {<<"Transfer-Encoding", JsString(<<"chunked">>)>>,
              <<"content-type", JsString(<<"application/json">>)>>}

RemoveInputs == {"Transfer-Encoding"}

MessageInputs == {"Custom"}

Next ==
    \/ \E code \in StatusInputs : SetStatus(code)
    \/ \E val \in BodyInputs : SetBody(val)
    \/ \E type \in TypeInputs : SetType(type)
    \/ \E p \in SetInputs : CallSet(p[1], p[2])
    \/ \E field \in RemoveInputs : CallRemove(field)
    \/ \E msg \in MessageInputs : SetMessage(msg)
    \/ FlushHeaders

Spec == Init /\ [][Next]_vars

(***************************************************************************)
(* SpecHeaders: the header store, the status setter and the flush          *)
(***************************************************************************)
HdrStatusInputs == {Code(404), Code(1000), NonInteger(200)}

HdrSetInputs ==
    {<<"Link", JsString(<<"a">>)>>,
     <<"link", JsArray(<<JsString(<<"a">>), JsNumber(7)>>)>>,
     <<"Transfer-Encoding", JsString(<<"chunked">>)>>}

HdrObjectInputs ==
    {<< <<"Vary", JsString(<<"Accept">>)>>, <<"Link", JsString(<<"b">>)>> >>}

HdrAppendInputs ==
    {<<"Link", JsString(<<"b">>)>>, <<"Link", JsString(<<>>)>>,
     <<"Link", JsArray(<<JsString(<<"c">>), JsString(<<"d">>)>>)>>}

HdrRemoveInputs == {"Link", "vary"}

VaryInputs == {"Accept", "Origin", "ORIGIN", "*"}

EtagInputs == {<<"abc">>, <<"W/", "\"", "abc", "\"">>}

LastModifiedInputs ==
    {[isString |-> TRUE, str |-> "2013-09-13", time |-> 0],
     [isString |-> TRUE, str |-> "yesterday-ish", time |-> 0],
     [isString |-> FALSE, str |-> "", time |-> 15961]}

HdrTypeInputs == {"png", "nope"}

LengthInputs == {5}

NextHeaders ==
    \/ \E code \in HdrStatusInputs : SetStatus(code)
    \/ \E p \in HdrSetInputs : CallSet(p[1], p[2])
    \/ \E pairs \in HdrObjectInputs : CallSetObject(pairs)
    \/ \E p \in HdrAppendInputs : CallAppend(p[1], p[2])
    \/ \E field \in HdrRemoveInputs : CallRemove(field)
    \/ \E field \in VaryInputs : CallVary(field)
    \/ \E val \in EtagInputs : SetEtag(val)
    \/ \E val \in LastModifiedInputs : SetLastModified(val)
    \/ \E type \in HdrTypeInputs : SetType(type)
    \/ \E n \in LengthInputs : SetLength(n)
    \/ FlushHeaders

SpecHeaders == Init /\ [][NextHeaders]_vars

(***************************************************************************)
(* SpecStream: stream bodies and the life of the outbound message          *)
(***************************************************************************)
StreamBodyInputs ==
    {StreamBody(s) : s \in Streams} \cup {Null, StringBody(<<"a">>)}

StreamStatusInputs == {Code(204), Code(404)}

NextStream ==
    \/ \E val \in StreamBodyInputs : SetBody(val)
    \/ \E code \in StreamStatusInputs : SetStatus(code)
    \/ \E n \in LengthInputs : SetLength(n)
    \/ \E s \in Streams : StreamError(s)
    \/ FlushHeaders
    \/ Finish
    \/ Tick

SpecStream == Init /\ [][NextStream]_vars

\* the event loop always takes its next turn
SpecStreamFair == SpecStream /\ WF_vars(Tick)

(***************************************************************************)
(* SpecRedirect: redirect, under a status and a Referrer that vary         *)
(***************************************************************************)
NextRedirect ==
    \/ \E target \in {Back, <<"/", "login">>, <<"/", "a", " ", "b">>},
          alt \in {<<>>, <<"/", "index.html">>} : Redirect(target, alt)
    \/ \E code \in {Code(200), Code(301)} : SetStatus(code)
    \/ \E field \in {"referrer", "referer"}, val \in {<<>>, <<"http://x/y">>} :
          SetReqHeader(field, val)
    \/ FlushHeaders

SpecRedirect == Init /\ [][NextRedirect]_vars

(***************************************************************************)
(* SpecContent: body, status and type assignments only; no header is       *)
(* written directly and the head is never sent                             *)
(***************************************************************************)
NextContent ==
    \/ \E code \in StatusInputs : SetStatus(code)
    \/ \E val \in BodyInputs : SetBody(val)
    \/ \E type \in TypeInputs : SetType(type)

SpecContent == Init /\ [][NextContent]_vars

(***************************************************************************)
(* SpecFacade: status and body assignments, redirect and header            *)
(* operations, before and after the head is sent                           *)
(***************************************************************************)
NextFacade ==
    \/ \E code \in {Code(99), Code(100), Code(304), Code(999), Code(1000),
                     NonInteger(200)} : SetStatus(code)
    \/ \E val \in {Null, StringBody(<<"U+00E9", "a">>), JsonBody(0)} : SetBody(val)
    \/ \E target \in {Back, <<"/", "login">>} : Redirect(target, <<>>)
    \/ CallSet("Link", JsString(<<"a">>))
    \/ CallAppend("Link", JsString(<<"b">>))
    \/ CallRemove("Link")
    \/ SetType("png")
    \/ FlushHeaders

SpecFacade == Init /\ [][NextFacade]_vars

(***************************************************************************)
(* SpecAddr: ips and ip, under every proxy setting                         *)
(***************************************************************************)
InitAddr ==
    /\ InitResponse
    /\ reqHeaders = NoReqHeaders
    /\ url = <<"/">>
    /\ originalUrl = <<"/">>
    /\ remoteAddress \in {<<>>, <<"10.0.0.9">>}
    /\ encrypted = FALSE
    /\ proxy \in BOOLEAN
    /\ subdomainOffset = DefaultSubdomainOffset
    /\ proxyIpHeader \in {"X-Forwarded-For", "X-Real-IP"}
    /\ maxIpsCount \in {DefaultMaxIpsCount, 1}
    /\ InitFacade

NextAddr ==
    \/ \E val \in {<<>>, <<"1.1.1.1">>, <<"1.1.1.1", " ", ",", " ", "2.2.2.2">>} :
          SetReqHeader("x-forwarded-for", val)
    \/ \E val \in {<<"3.3.3.3">>} : SetReqHeader("x-real-ip", val)
    \/ \E address \in {<<>>, <<"10.0.0.7">>} : SetRemoteAddress(address)
    \/ ReadIps
    \/ ReadIp

SpecAddr == InitAddr /\ [][NextAddr]_vars

(***************************************************************************)
(* SpecUrl: assignments to url, path, querystring, search and query, and   *)
(* reads of query                                                          *)
(***************************************************************************)
NextUrl ==
    \/ \E val \in {<<"/", "p">>, <<"/", "p", "?", "a", "=", "1">>,
                    <<"/", "?", "toString">>} : SetUrl(val)
    \/ \E path \in {<<"/", "q">>} : SetPath(path)
    \/ \E str \in {<<>>, <<"a", "=", "1">>, <<"b", "=", "2", "&", "a", "=", "1">>} :
          SetQuerystring(str)
    \/ \E str \in {<<"?", "a", "=", "1">>, <<"b", "=", "2">>} : SetSearch(str)
    \/ \E obj \in {<<>>, <<[k |-> <<"a">>, v |-> <<"1">>]>>,
                    <<[k |-> <<"b">>, v |-> <<"2">>], [k |-> <<"c">>, v |-> <<>>]>>} :
          SetQuery(obj)
    \/ ReadQuery

SpecUrl == Init /\ [][NextUrl]_vars

(***************************************************************************)
(* SpecHost: URL and subdomains, under Host and forwarded headers that     *)
(* change                                                                  *)
(***************************************************************************)
InitHost ==
    /\ InitResponse
    /\ reqHeaders = NoReqHeaders
    /\ url = <<"/">>
    /\ originalUrl = <<"/">>
    /\ remoteAddress = <<"10.0.0.9">>
    /\ encrypted = FALSE
    /\ proxy \in BOOLEAN
    /\ subdomainOffset \in {DefaultSubdomainOffset, 3}
    /\ proxyIpHeader = "X-Forwarded-For"
    /\ maxIpsCount = DefaultMaxIpsCount
    /\ InitFacade

NextHost ==
    \/ \E val \in {<<"tobi", ".", "ferrets", ".", "example", ".", "com">>,
                    <<"tobi", ".", "ferrets", ".", "example", ".", "com", ":", "3000">>,
                    <<"127", ".", "0", ".", "0", ".", "1">>,
                    <<"[", ":", ":", "1", "]", ":", "3000">>,
                    <<"[", ":", ":", "1">>} : SetReqHeader("host", val)
    \/ \E val \in {<<"a", ".", "b", ".", "example", ".", "com", ",", " ", "proxy">>} :
          SetReqHeader("x-forwarded-host", val)
    \/ \E val \in {<<"https">>} : SetReqHeader("x-forwarded-proto", val)
    \/ ReadURL
    \/ ReadSubdomains

SpecHost == InitHost /\ [][NextHost]_vars

(***************************************************************************)
(* Properties                                                              *)
(***************************************************************************)
\* the last call was the body setter / the status setter
BodyAssigned == lastOp.name = "body"
StatusAssigned == lastOp.name = "status"

\* the type getter's answer on the object the last call found
TypeBefore == get_type(lastOp.pre)

\* the three entity headers the no-content branch removes
EntityHeadersAbsent ==
    /\ ~headers["content-type"].present
    /\ ~headers["content-length"].present
    /\ ~headers["transfer-encoding"].present

\* the size in bytes of a string: one per character, one more for each e-acute
Utf8Size(s) == Len(s) + Cardinality({i \in 1..Len(s) : s[i] = "U+00E9"})

\* the size in bytes of a string or buffer body
BodyBytes(val) == IF val.kind = "string" THEN Utf8Size(val.s) ELSE val.n

\* C1: once the response head has been sent, no call of set, append, remove,
\* vary, the type / length / etag / lastModified setters or a status assignment
\* changes the header map or the status code (they stay as they were when the
\* head was sent), and none of these calls raises.
C1_FrozenAfterFlush ==
    headersSent =>
        /\ headers = atFlush.headers
        /\ statusCode = atFlush.statusCode
        /\ (lastOp.pre.headersSent => lastOp.threw = "")

\* an out-of-range status assigned after the head was sent, with headers stored
C1_Witness ==
    /\ lastOp.pre.headersSent
    /\ StatusAssigned
    /\ lastOp.code = Code(1000)
    /\ headers["link"].present

\* what C2 asks of a status assignment of the given value
StatusContract(code) ==
    IF code.int /\ code.n >= 100 /\ code.n <= 999
    THEN lastOp.threw = "" /\ statusCode = code.n
    ELSE lastOp.threw = "AssertionError"

\* C2 as stated: every integer in [100,999] is accepted and then read back,
\* every other value raises a validation error; never silently ignored.
C2_Original == StatusAssigned => StatusContract(lastOp.code)

\* C2 amended: that holds while the head has not been sent; after it has been
\* sent every status assignment is ignored without an error.
C2_Amended ==
    StatusAssigned =>
        IF lastOp.pre.headersSent
        THEN lastOp.threw = "" /\ statusCode = lastOp.pre.statusCode
        ELSE StatusContract(lastOp.code)

\* a non-integer value assigned before the head is sent raises
C2_Witness ==
    /\ StatusAssigned
    /\ ~lastOp.pre.headersSent
    /\ lastOp.code = NonInteger(200)
    /\ lastOp.threw = "AssertionError"

NullString == StringBody(<<"n", "u", "l", "l">>)

\* C4 as stated: whenever Content-Type is application/json, body = null gives
\* the 4-character string "null" as body and leaves the status unchanged.
C4_Original ==
    (BodyAssigned /\ IsNullish(lastOp.val) /\ TypeBefore = <<"application/json">>)
    => /\ _body = NullString
       /\ Len(_body.s) = 4
       /\ statusCode = lastOp.pre.statusCode

\* C4 amended: that holds when the status is not a no-body-family status
\* (204, 205, 304).
C4_Amended ==
    (/\ BodyAssigned
     /\ IsNullish(lastOp.val)
     /\ TypeBefore = <<"application/json">>
     /\ lastOp.pre.statusCode \notin StatusEmpty)
    => /\ _body = NullString
       /\ Len(_body.s) = 4
       /\ statusCode = lastOp.pre.statusCode

\* null assigned under application/json (with a charset parameter) and status 200
C4_Witness ==
    /\ BodyAssigned
    /\ lastOp.val = Null
    /\ lastOp.pre.headers["content-type"] = Scalar(AppJson)
    /\ lastOp.pre.statusCode = 200
    /\ _body = NullString

\* C5 as stated: with the head not sent and a non-null body set, assigning a
\* no-body-family status clears the body to null and removes Content-Type,
\* Content-Length and Transfer-Encoding.
C5_Original ==
    (/\ StatusAssigned
     /\ ~lastOp.pre.headersSent
     /\ ~IsNullish(lastOp.pre._body)
     /\ lastOp.code.int
     /\ lastOp.code.n \in StatusEmpty)
    => /\ _body = Null
       /\ EntityHeadersAbsent

\* C6 as stated: while the caller has never assigned status, a non-null body
\* forces status 200; explicitStatus is true only if the caller has assigned
\* status; once the caller has, a non-null body leaves the status untouched.
C6_Original ==
    /\ (BodyAssigned /\ ~IsNullish(lastOp.val) /\ ~lastOp.pre.headersSent
        /\ ~callerStatus) => statusCode = 200
    /\ _explicitStatus => callerStatus
    /\ (BodyAssigned /\ ~IsNullish(lastOp.val) /\ callerStatus)
        => statusCode = lastOp.pre.statusCode

\* C7 as stated: a non-null body assignment never overwrites a Content-Type
\* that is already set.
C7_Original ==
    (/\ BodyAssigned
     /\ ~IsNullish(lastOp.val)
     /\ lastOp.pre.headers["content-type"].present)
    => headers["content-type"] = lastOp.pre.headers["content-type"]

LengthIs(n) ==
    /\ headers["content-length"] = Scalar(String(n))
    /\ get_length(This) = [known |-> TRUE, n |-> n]

C10_Original ==
    (/\ BodyAssigned
     /\ lastOp.val.kind = "stream"
     /\ lastOp.pre._body.kind = "stream"
     /\ lastOp.pre._body # lastOp.val
     /\ ~lastOp.pre.finished)
    => lastOp.pre._body.n \in destroyed

\* C11: when the outbound message finishes, the streams assigned as body
\* are torn down: every stream assigned before the finish, the current body
\* among them, is destroyed by the finish itself, and a stream assigned after
\* it has its destroy listener deferred and is destroyed at the next tick, so
\* that no assigned stream stays un-destroyed once the message has finished.
C11_FinishDestroys ==
    /\ [](lastOp.name = "finish" => assigned \subseteq destroyed)
    /\ [](finished => \A s \in assigned : s \in destroyed \/ deferred[s] > 0)
    /\ \A s \in Streams : (finished /\ s \in assigned) ~> (s \in destroyed)

\* the message has finished while a stream was the body and after another had
\* been replaced, and both are destroyed
C11_Witness ==
    /\ lastOp.name = "finish"
    /\ lastOp.pre._body.kind = "stream"
    /\ Cardinality(assigned) = 2
    /\ assigned \subseteq destroyed

\* the percent-encoding of a target: a space and the angle brackets encoded
PercentEncoded(s) ==
    [i \in 1..Len(s) |-> CASE s[i] = " " -> "%20"
                          [] s[i] = "<" -> "%3C"
                          [] s[i] = ">" -> "%3E"
                          [] OTHER -> s[i]]

\* the target of the last redirect call as C12 gives it: the url, "back"
\* standing for the Referrer of the request, else alt, else "/"
RedirectTarget ==
    IF lastOp.val.s # Back THEN lastOp.val.s
    ELSE IF lastOp.val.req.headers["referrer"] # <<>>
    THEN lastOp.val.req.headers["referrer"]
    ELSE IF lastOp.val.req.headers["referer"] # <<>>
    THEN lastOp.val.req.headers["referer"]
    ELSE IF lastOp.val.alt # <<>> THEN lastOp.val.alt ELSE <<"/">>

\* C12 as stated: redirect(url, alt) with the head not sent sets Location to
\* the percent-encoded target ("back" resolved to the Referrer, else alt, else
\* "/"), makes the status 302 unless it was a redirect-family code already
\* (then it is unchanged), and makes the body a non-null string of type
\* text/html or text/plain.
C12_Original ==
    (lastOp.name = "redirect" /\ ~lastOp.pre.headersSent)
    => /\ lastOp.threw = ""
       /\ headers["location"] = Scalar(PercentEncoded(RedirectTarget))
       /\ statusCode = IF lastOp.pre.statusCode \in StatusRedirect
                       THEN lastOp.pre.statusCode ELSE 302
       /\ _body.kind = "string"
       /\ get_type(This) \in {<<"text/html">>, <<"text/plain">>}

\* C13: with proxying disabled, ips is the empty sequence and ip is a remote
\* address of the connection (the current one when the read resolves it; ""
\* when there is none), and both are what the same request without the
\* forwarded-address headers gets: they do not depend on X-Forwarded-For or on
\* the configured proxy-IP header, whatever maxIpsCount is.
C13_ProxyOffIgnoresForwarded ==
    ~proxy =>
        /\ reqOp.name = "ips" => reqOp.ret = <<>>
        /\ reqOp.name = "ip" =>
              /\ reqOp.ret \in addrSeen
              /\ reqOp.pre.IP = <<>> => reqOp.ret = reqOp.pre.remoteAddress
        /\ reqOp.name \in {"ips", "ip"} => reqOp.ret = reqOp.twinRet

\* proxying disabled, a forwarded chain in the configured header, one address
\* kept at most, and ip read as the remote address
C13_Witness ==
    /\ ~proxy
    /\ maxIpsCount = 1
    /\ reqOp.name = "ip"
    /\ Len(req_get(reqOp.pre, proxyIpHeader)) > 1
    /\ reqOp.ret = <<"10.0.0.7">>

\* C14 as stated: every read of ip after the first returns what the first
\* returned, whatever changed in between and whatever the first returned.
C14_Original == \A i \in 1..Len(ipReads) : ipReads[i] = ipReads[1]

\* what C15 asks of a read of query, and of an assignment to it: the read
\* returns the parse of the current querystring, which is the cache entry
\* under that querystring, the one already there when the querystring was
\* seen before; after query = obj, querystring is the serialization of obj
QueryContract ==
    /\ reqOp.name = "query" =>
          LET str == get_querystring(reqOp.pre)
          IN  /\ reqOp.ret.kind = "parsed"
              /\ reqOp.ret.pairs = qs_parse(str)
              /\ str \in DOMAIN _querycache /\ _querycache[str] = reqOp.ret
              /\ str \in DOMAIN reqOp.pre._querycache
                    => reqOp.ret = reqOp.pre._querycache[str]
    /\ reqOp.name = "set query" => get_querystring(Req) = qs_stringify(reqOp.arg)

\* C15 as stated: after any assignments to url, path, querystring, search and
\* query, originalUrl is the value captured at construction, a read of query
\* returns the cache entry keyed by the current querystring (its parse; the
\* same structure as before for a querystring seen earlier), and query = obj
\* makes querystring the serialization of obj.
C15_Original ==
    /\ originalUrl = <<"/">>
    /\ QueryContract

\* the same, for reads whose querystring is no member name of Object.prototype
C15_ExceptInherited ==
    /\ originalUrl = <<"/">>
    /\ (reqOp.name = "query" /\ Len(get_querystring(reqOp.pre)) = 1
         /\ get_querystring(reqOp.pre)[1] \in ObjectPrototype)
       \/ QueryContract

\* C16: URL never raises and is memoized: the first read parses origin +
\* originalUrl and keeps the result, the empty placeholder when the parse
\* fails; every later read returns that same object, without another parse,
\* whatever the Host and protocol headers have become.
C16_URLMemoized ==
    reqOp.name = "URL" =>
        /\ reqOp.threw = ""
        /\ memoizedURL = reqOp.ret
        /\ IF reqOp.pre.memoizedURL.set
           THEN reqOp.ret = reqOp.pre.memoizedURL
           ELSE LET parsed == NewURL(get_origin(reqOp.pre) \o reqOp.pre.originalUrl)
                IN  /\ reqOp.ret.set
                    /\ reqOp.ret.ok = parsed.ok
                    /\ reqOp.ret.hostname = parsed.hostname
                    /\ reqOp.ret.href = parsed.href

\* URL is read again after a failed parse was memoized, with headers that
\* would parse now
C16_Witness ==
    /\ reqOp.name = "URL"
    /\ reqOp.pre.memoizedURL.set
    /\ ~reqOp.pre.memoizedURL.ok
    /\ NewURL(get_origin(reqOp.pre) \o reqOp.pre.originalUrl).ok
    /\ ~reqOp.ret.ok

\* the host name the last call found
HostnameBefore == get_hostname(reqOp.pre, 0).ret

\* a host name that is an IPv4 literal or an IPv6 literal (in its brackets)
IsAddressLiteral(h) ==
    \/ IsIPv4(h)
    \/ Len(h) > 2 /\ h[1] = "[" /\ h[Len(h)] = "]" /\ IsIPv6(SubSeq(h, 2, Len(h) - 1))

\* the labels of h between its dots, last label first, without the first
\* offset of them
ReversedLabels(h, offset) ==
    LET dots == {i \in 1..Len(h) : h[i] = "."}
        n == Cardinality(dots) + 1
        start(k) == IF k = 1 THEN 1
                    ELSE 1 + CHOOSE i \in dots : Cardinality({j \in dots : j <= i}) = k - 1
        end(k) == IF k = n THEN Len(h)
                  ELSE (CHOOSE i \in dots : Cardinality({j \in dots : j <= i}) = k) - 1
    IN  [i \in 1..(IF n > offset THEN n - offset ELSE 0) |->
            SubSeq(h, start(n + 1 - offset - i), end(n + 1 - offset - i))]

\* C18: subdomains is the labels of hostname in reverse order without the
\* first subdomainOffset of them: [ferrets, tobi] and [tobi] for
\* tobi.ferrets.example.com with offsets 2 and 3; it is empty for a hostname
\* that is an IPv4 or IPv6 literal.
C18_Subdomains ==
    reqOp.name = "subdomains" =>
        /\ reqOp.ret = IF IsAddressLiteral(HostnameBefore) THEN <<>>
                       ELSE ReversedLabels(HostnameBefore, subdomainOffset)
        /\ (HostnameBefore = <<"tobi", ".", "ferrets", ".", "example", ".", "com">>
            /\ subdomainOffset = 2) => reqOp.ret = << <<"ferrets">>, <<"tobi">> >>
        /\ (HostnameBefore = <<"tobi", ".", "ferrets", ".", "example", ".", "com">>
            /\ subdomainOffset = 3) => reqOp.ret = << <<"tobi">> >>

\* subdomains read under Host tobi.ferrets.example.com:3000 and offset 3
C18_Witness ==
    /\ reqOp.name = "subdomains"
    /\ reqOp.pre.headers["host"] =
          <<"tobi", ".", "ferrets", ".", "example", ".", "com", ":", "3000">>
    /\ subdomainOffset = 3
    /\ reqOp.ret = << <<"tobi">> >>

\* subdomains read under an IPv6 literal as host, and under an IPv4 literal
C18_WitnessAddress ==
    /\ reqOp.name = "subdomains"
    /\ HostnameBefore \in {<<"[", ":", ":", "1", "]">>, <<"127", ".", "0", ".", "0", ".", "1">>}
    /\ reqOp.ret = <<>>

\* the strings a header holds, in order: none when it is absent
HeaderStrings(h) == IF h.present THEN h.v ELSE <<>>

\* the strings of an argument of append: the string, or those of the list
ArgStrings(val) ==
    IF val.t = "array" THEN [i \in 1..Len(val.a) |-> val.a[i].s] ELSE <<val.s>>

\* C17 as stated: append(field, value) with the head not sent leaves the field
\* holding its previous value(s) followed by the new value(s), so that a
\* sequence of appends on an absent field (strings, possibly empty, or lists
\* of strings) is held in call order with none lost; after the head is sent
\* append changes nothing.
C17_Original ==
    lastOp.name = "append" =>
        IF lastOp.pre.headersSent
        THEN headers = lastOp.pre.headers
        ELSE HeaderStrings(headers[Lower(lastOp.val.field)])
             = HeaderStrings(lastOp.pre.headers[Lower(lastOp.val.field)])
               \o ArgStrings(lastOp.val.arg)

\* the same, for appends to a field that is not the empty string
C17_ExceptAfterEmpty ==
    (lastOp.name = "append"
     /\ lastOp.pre.headers[Lower(lastOp.val.field)] # Scalar(<<>>))
    => C17_Original

\* the last call assigned a stream as body over a stream, the head not sent
StreamOverStream ==
    /\ BodyAssigned
    /\ lastOp.val.kind = "stream"
    /\ lastOp.pre._body.kind = "stream"
    /\ ~lastOp.pre.headersSent

\* the last call added a finish hook for its stream: a listener on the
\* message, deferred to the next tick when the message had finished
FinishHookAdded ==
    IF lastOp.pre.finished
    THEN deferred[lastOp.val.n] = lastOp.pre.deferred[lastOp.val.n] + 1
    ELSE finishHooks[lastOp.val.n] = lastOp.pre.finishHooks[lastOp.val.n] + 1

\* after the last call Content-Length is absent and length reads undefined,
\* and the call added an error hook and a finish hook to its stream
LengthDroppedAndHooked ==
    /\ ~headers["content-length"].present
    /\ ~get_length(This).known
    /\ errorHooks[lastOp.val.n] = lastOp.pre.errorHooks[lastOp.val.n] + 1
    /\ FinishHookAdded

C20_Original == (~headersSent /\ statusCode \in StatusEmpty) => IsNullish(_body)

\* C21 as stated: before the head is sent, after body, status and type
\* assignments only, when Content-Length is present and the body is a string
\* or a buffer, Content-Length is the byte length of the body.
C21_Original ==
    (/\ ~headersSent
     /\ headers["content-length"].present
     /\ _body.kind \in {"string", "buffer"})
    => headers["content-length"] = Scalar(String(BodyBytes(_body)))

\* C22: a status assignment that validation rejects changes nothing: the
\* status code, the status message, the explicitStatus flag, the body and the
\* headers after the raised error are those before the assignment.
C22_RejectedStatusChangesNothing ==
    (StatusAssigned /\ lastOp.threw = "AssertionError")
    => /\ statusCode = lastOp.pre.statusCode
       /\ statusMessage = lastOp.pre.statusMessage
       /\ _explicitStatus = lastOp.pre._explicitStatus
       /\ _body = lastOp.pre._body
       /\ headers = lastOp.pre.headers

\* an out-of-range status is rejected on a response that has a body and a
\* Content-Type
C22_Witness ==
    /\ StatusAssigned
    /\ lastOp.threw = "AssertionError"
    /\ lastOp.code = Code(1000)
    /\ ~lastOp.pre.headersSent
    /\ ~IsNullish(lastOp.pre._body)
    /\ lastOp.pre.headers["content-type"].present

\* C23: the status code starts as an integer in [100,999] and is an integer
\* in [100,999] after every sequence of status and body assignments, redirects
\* and header operations, before and after the head is sent.
C23_StatusStaysValid == statusCode \in Int /\ statusCode >= 100 /\ statusCode <= 999

\* an out-of-range status is assigned after a null body made the status 204
C23_Witness ==
    /\ StatusAssigned
    /\ lastOp.code \in {Code(99), Code(1000)}
    /\ ~lastOp.pre.headersSent
    /\ lastOp.pre.statusCode = 204
    /\ statusCode = 204

\* the type of every variable the calls of the model write
TypeOK ==
    /\ ops \in 0..MaxOps
    /\ headersSent \in BOOLEAN
    /\ finished \in BOOLEAN
    /\ statusCode \in 100..999
    /\ assigned \subseteq Streams
    /\ destroyed \subseteq Streams
    /\ proxy \in BOOLEAN

====
